---------------------------- MODULE Spec2Model ----------------------------
(***************************************************************************)
(* The payment gateway of src/app.py: the handler process_payment, run by  *)
(* the server's worker threads against one SQLite database (the accounts   *)
(* table and the transactions journal), and the scorer of                  *)
(* src/fraud_model.py.                                                     *)
(*                                                                         *)
(* Money is counted in whole currency units and a risk score in hundredths *)
(* (0.4 is 40, 0.8 is 80, 0.9 is 90).  A Python None is the empty sequence *)
(* and a value v that may be None is <<v>>.  A string whose characters     *)
(* matter (an account number, an amount sent as text) is a sequence of     *)
(* one-character strings.                                                  *)
(*                                                                         *)
(* Each worker keeps its own connection.  sqlite3 opens a transaction      *)
(* before the first INSERT/UPDATE of a connection and holds the database's *)
(* write lock until commit or close; what a connection has written is in   *)
(* tx[p] until it commits, and is dropped when it closes without commit.   *)
(* A SELECT outside a transaction reads the committed state.               *)
(***************************************************************************)
EXTENDS Integers, Sequences, FiniteSets, TLC

VARIABLES
    accounts,       \* committed accounts table: account_number -> current_balance
    transactions,   \* committed transactions table, in insertion order
    writer,         \* the connection holding the database write lock, or <<>>
    pc,             \* each worker's position in process_payment
    local,          \* each worker's local variables of process_payment
    tx,             \* each connection's uncommitted writes
    pre,            \* history: the committed tables when the worker's request arrived
    served,         \* number of requests received so far
    portal          \* the rows banker_portal has fetched and not yet rendered, or <<>>

vars == <<accounts, transactions, writer, pc, local, tx, pre, served, portal>>

---------------------------------------------------------------------------
(* Program constants *)

RISK_THRESHOLD_DENY == 80

RISK_THRESHOLD_FLAG == 40

FRAUD_LABEL_THRESHOLD == 90

\* LIMIT 10 of the high-risk listing
PORTAL_LIMIT == 10

DEFAULT_BALANCE == 1000

PREFIX_LEN == 4

SIMULATION_ACCOUNT ==
    <<"0","0","0","0","0","0","0","0","0","0","0","0","0","0","0","0">>

required_fields == {"account_number", "amount", "security_pin", "payment_method"}

---------------------------------------------------------------------------
(* Bounds and the inputs that are tried *)

MaxRequests == 2

Procs == {1, 2}

None == <<>>

Digits == {"0","1","2","3","4","5","6","7","8","9"}

\* an account with a row in the accounts table from the start
KnownAccount == <<"4","0","0","0","1","1","1","1","2","2","2","2","3","3","3","3">>

\* an account with no row: the first request that names it opens it
NewAccount == <<"5","0","0","0","1","1","1","1","2","2","2","2","3","3","3","3">>

\* fewer than 4 characters, all digits
ShortAccount == <<"1","2","3">>

\* the first 4 characters are not a number
BadPrefixAccount == <<"a","b","c","d","1","1","1","1">>

AccountNumbers ==
    {KnownAccount, NewAccount, SIMULATION_ACCOUNT, ShortAccount, BadPrefixAccount}

\* a JSON number, a JSON string, or JSON null
Num(n) == [t |-> "num", v |-> n, s |-> <<>>]

Str(s) == [t |-> "str", v |-> 0, s |-> s]

Null == [t |-> "null", v |-> 0, s |-> <<>>]

AmountInputs ==
    {Num(0 - 50), Num(50), Num(150), Str(<<"a","b","c">>), Str(<<"5","0">>), Null}

RiskScores == {20, 40, 80, 95}

\* a request body with every required field
Body(acct, amt) ==
    [f \in required_fields |->
        CASE f = "account_number" -> Str(acct)
          [] f = "amount" -> amt
          [] f = "security_pin" -> Str(<<"1","2","3","4">>)
          [] f = "payment_method" -> Str(<<"c","a","r","d">>)]

\* function d restricted to the keys in S
Restrict(d, S) == [f \in S |-> d[f]]

\* the request bodies that are tried: every account with every amount, and one
\* body with each of the required fields left out
Requests ==
    {Body(a, m) : a \in AccountNumbers, m \in AmountInputs}
    \cup {Restrict(Body(KnownAccount, Num(50)), required_fields \ {f}) :
            f \in required_fields}

\* the bodies tried when requests run concurrently: well-formed ones only
ConcurrentRequests ==
    {Body(a, Num(m)) : a \in {KnownAccount, NewAccount, SIMULATION_ACCOUNT},
                       m \in {0 - 50, 50, 150}}

---------------------------------------------------------------------------
(* Pure parts of the handler *)

\* float(x): the number of a JSON number; of a string, the number it spells
\* (here: an unsigned run of digits), else ValueError; of null, TypeError
RECURSIVE DigitsValue(_)
DigitsValue(s) ==
    IF s = <<>> THEN 0
    ELSE 10 * DigitsValue(SubSeq(s, 1, Len(s) - 1))
         + (CHOOSE d \in 0..9 : <<"0","1","2","3","4","5","6","7","8","9">>[d + 1] = s[Len(s)])

IsDigits(s) == Len(s) > 0 /\ \A i \in 1..Len(s) : s[i] \in Digits

float(x) ==
    CASE x.t = "num" -> [ok |-> TRUE, v |-> x.v, err |-> ""]
      [] x.t = "str" -> IF IsDigits(x.s)
                        THEN [ok |-> TRUE, v |-> DigitsValue(x.s), err |-> ""]
                        ELSE [ok |-> FALSE, v |-> 0, err |-> "ValueError"]
      [] OTHER -> [ok |-> FALSE, v |-> 0, err |-> "TypeError"]

\* s[:n]
Prefix(s, n) == SubSeq(s, 1, IF Len(s) < n THEN Len(s) ELSE n)

\* feature_engineer raises exactly when int(account_number[:4]) does
feature_engineer_ok(data) == IsDigits(Prefix(data["account_number"].s, PREFIX_LEN))

\* the thresholds compared with > instead of >=
Decide_Strict(risk_score) ==
    IF risk_score > RISK_THRESHOLD_DENY
    THEN [status |-> "Denied",
          reason |-> <<[text |-> "High Fraud Risk Detected (Score: {:.2f})",
                        score |-> <<risk_score>>]>>]
    ELSE IF risk_score > RISK_THRESHOLD_FLAG
    THEN [status |-> "Flagged", reason |-> None]
    ELSE [status |-> "Approved", reason |-> None]

\* the risk decision taken from the score alone
Decide(risk_score) ==
    IF risk_score >= RISK_THRESHOLD_DENY
    THEN [status |-> "Denied",
          reason |-> <<[text |-> "High Fraud Risk Detected (Score: {:.2f})",
                        score |-> <<risk_score>>]>>]
    ELSE IF risk_score >= RISK_THRESHOLD_FLAG
    THEN [status |-> "Flagged", reason |-> None]
    ELSE [status |-> "Approved", reason |-> None]

\* the label set from the review threshold
is_fraud_label_AtFlag(risk_score) == IF risk_score >= RISK_THRESHOLD_FLAG THEN 1 ELSE 0

\* is_fraud_label = 1 if risk_score > 0.9 else 0
is_fraud_label(risk_score) == IF risk_score > FRAUD_LABEL_THRESHOLD THEN 1 ELSE 0

---------------------------------------------------------------------------
(* State *)

InitLocal ==
    [data |-> <<>>, account_number |-> <<>>, amount |-> 0, risk_score |-> None,
     transaction_status |-> "", rejection_reason |-> None, account |-> None,
     current_balance |-> 0, db_debit_required |-> FALSE, response |-> None]

NoTx == [balance |-> None, journal |-> <<>>]

\* the accounts table before any request: the sample rows, with or without a
\* row for the simulation account
SampleAccounts == (KnownAccount :> 100)

Init ==
    /\ accounts \in {SampleAccounts, SampleAccounts @@ (SIMULATION_ACCOUNT :> 20)}
    /\ transactions = <<>>
    /\ writer = None
    /\ pc = [p \in Procs |-> "idle"]
    /\ local = [p \in Procs |-> InitLocal]
    /\ tx = [p \in Procs |-> NoTx]
    /\ pre = [p \in Procs |-> [accounts |-> accounts, transactions |-> transactions]]
    /\ served = 0
    /\ portal = None

\* the JSON answer and HTTP status returned to the caller
Response(code, status, risk_score, message, has_id) ==
    <<[code |-> code, status |-> status, risk_score |-> risk_score,
       message |-> message, transaction_id |-> has_id]>>

Finish(p, resp) ==
    /\ local' = [local EXCEPT ![p].response = resp]
    /\ pc' = [pc EXCEPT ![p] = "done"]

---------------------------------------------------------------------------
(* process_payment, one action per step between two accesses to shared state *)

\* a required field is left out
MissingField_NoMethod(data) ==
    ~({"account_number", "amount", "security_pin"} \subseteq DOMAIN data)

\* not all(field in data for field in required_fields)
MissingField(data) == ~(required_fields \subseteq DOMAIN data)

\* 1. Basic Validation: the required fields, then float(data['amount']).  A
\* TypeError of float() is not caught: the server answers 500.
Validate(p, bodies) ==
    /\ pc[p] = "idle"
    /\ served < MaxRequests
    /\ served' = served + 1
    /\ pre' = [pre EXCEPT ![p] = [accounts |-> accounts, transactions |-> transactions]]
    /\ \E data \in bodies :
        IF MissingField(data)
        THEN /\ local' = [local EXCEPT ![p] = [InitLocal EXCEPT
                    !.data = data,
                    !.response = Response(400, "error", None,
                                    <<"Missing required transaction data.">>, FALSE)]]
             /\ pc' = [pc EXCEPT ![p] = "done"]
        ELSE LET conv == float(data["amount"])
                 l == [InitLocal EXCEPT !.data = data,
                                        !.account_number = data["account_number"].s]
             IN  IF conv.ok
                 THEN /\ local' = [local EXCEPT ![p] = [l EXCEPT !.amount = conv.v]]
                      /\ pc' = [pc EXCEPT ![p] = "score"]
                 ELSE IF conv.err = "ValueError"
                 THEN /\ local' = [local EXCEPT ![p] = [l EXCEPT
                             !.response = Response(400, "error", None,
                                    <<"Transaction amount must be a number.">>, FALSE)]]
                      /\ pc' = [pc EXCEPT ![p] = "done"]
                 ELSE /\ local' = [local EXCEPT ![p] = [l EXCEPT
                             !.response = Response(500, "error", None,
                                    <<"Internal Server Error">>, FALSE)]]
                      /\ pc' = [pc EXCEPT ![p] = "done"]
    /\ UNCHANGED <<accounts, transactions, writer, tx, portal>>

\* get_risk_score: what the scorer can do with the request.  The classifier
\* is a black box: any score, or an exception (the model cannot be loaded,
\* inference raises); feature_engineer raises when the prefix is no number.
get_risk_score(data) ==
    IF feature_engineer_ok(data)
    THEN {<<s>> : s \in RiskScores} \cup {None}
    ELSE {None}

\* the scorer's exception answered as a client error
ScoringFailure_BadRequest ==
    Response(400, "error", None,
             <<"Internal ML processing error. Cannot assess risk.">>, FALSE)

\* the answer to an exception of the scorer
ScoringFailure ==
    Response(500, "error", None,
             <<"Internal ML processing error. Cannot assess risk.">>, FALSE)

\* 2. ML Integration and 3. Decision Logic
Score(p) ==
    /\ pc[p] = "score"
    /\ \E r \in get_risk_score(local[p].data) :
        IF r = None
        THEN Finish(p, ScoringFailure)
        ELSE /\ local' = [local EXCEPT ![p].risk_score = r,
                                       ![p].transaction_status = Decide(r[1]).status,
                                       ![p].rejection_reason = Decide(r[1]).reason]
             /\ pc' = [pc EXCEPT ![p] = "select"]
    /\ UNCHANGED <<accounts, transactions, writer, tx, pre, served, portal>>

\* 4. the SELECT of the account's row, outside any transaction
SelectAccount(p) ==
    /\ pc[p] = "select"
    /\ local' = [local EXCEPT
            ![p].account = IF local[p].account_number \in DOMAIN accounts
                           THEN <<accounts[local[p].account_number]>> ELSE None,
            ![p].current_balance = 0,
            ![p].db_debit_required = FALSE]
    /\ pc' = [pc EXCEPT ![p] = "open"]
    /\ UNCHANGED <<accounts, transactions, writer, tx, pre, served, portal>>

\* the simulation account is opened like any other
NeedsOpening_AnyAccount(l) == l.account = None

\* account is None and account_number != SIMULATION_ACCOUNT
NeedsOpening(l) == l.account = None /\ l.account_number # SIMULATION_ACCOUNT

\* FIX 1: an unknown account is created with the default balance and
\* committed at once.  The INSERT waits for the write lock; when another
\* connection has created the row since the SELECT it raises IntegrityError,
\* which is passed over: current_balance stays 0.0 and the transaction the
\* INSERT opened stays open.
OpenAccount(p) ==
    /\ pc[p] = "open"
    /\ LET l == local[p] IN
        IF NeedsOpening(l)
        THEN /\ writer = None
             /\ IF l.account_number \in DOMAIN accounts
                THEN /\ writer' = <<p>>
                     /\ UNCHANGED <<accounts, local>>
                ELSE /\ accounts' = accounts @@ (l.account_number :> DEFAULT_BALANCE)
                     /\ local' = [local EXCEPT ![p].current_balance = DEFAULT_BALANCE]
                     /\ UNCHANGED writer
        ELSE /\ local' = [local EXCEPT ![p].current_balance =
                            IF l.account # None THEN l.account[1] ELSE l.current_balance]
             /\ UNCHANGED <<accounts, writer>>
    /\ pc' = [pc EXCEPT ![p] = "fundcheck"]
    /\ UNCHANGED <<transactions, tx, pre, served, portal>>

\* the fund check made only for an Approved decision
FundChecked_ApprovedOnly(l) ==
    IF l.account_number = SIMULATION_ACCOUNT
    THEN [l EXCEPT !.db_debit_required = FALSE]
    ELSE IF l.transaction_status = "Approved"
    THEN IF l.current_balance < l.amount
         THEN [l EXCEPT !.transaction_status = "Denied",
                        !.rejection_reason =
                            <<[text |-> "Insufficient Funds.", score |-> None]>>]
         ELSE [l EXCEPT !.db_debit_required = TRUE]
    ELSE l

\* the fund check made whatever the risk decision
FundChecked_Always(l) ==
    IF l.account_number = SIMULATION_ACCOUNT
    THEN [l EXCEPT !.db_debit_required = FALSE]
    ELSE IF l.current_balance < l.amount
         THEN [l EXCEPT !.transaction_status = "Denied",
                        !.rejection_reason =
                            <<[text |-> "Insufficient Funds.", score |-> None]>>]
         ELSE [l EXCEPT !.db_debit_required = TRUE]

\* the simulation account is fund-checked like any other
FundChecked_NoSimulation(l) ==
    IF l.transaction_status # "Denied"
    THEN IF l.current_balance < l.amount
         THEN [l EXCEPT !.transaction_status = "Denied",
                        !.rejection_reason =
                            <<[text |-> "Insufficient Funds.", score |-> None]>>]
         ELSE [l EXCEPT !.db_debit_required = TRUE]
    ELSE l

\* no request is denied for insufficient funds
FundChecked_NoCheck(l) ==
    IF l.account_number = SIMULATION_ACCOUNT
    THEN [l EXCEPT !.db_debit_required = FALSE]
    ELSE IF l.transaction_status # "Denied"
    THEN [l EXCEPT !.db_debit_required = TRUE]
    ELSE l

\* FIX 2 and the insufficient-funds check: the locals after it
FundChecked(l) ==
    IF l.account_number = SIMULATION_ACCOUNT
    THEN [l EXCEPT !.db_debit_required = FALSE]
    ELSE IF l.transaction_status # "Denied"
    THEN IF l.current_balance < l.amount
         THEN [l EXCEPT !.transaction_status = "Denied",
                        !.rejection_reason =
                            <<[text |-> "Insufficient Funds.", score |-> None]>>]
         ELSE [l EXCEPT !.db_debit_required = TRUE]
    ELSE l

FundCheck(p) ==
    /\ pc[p] = "fundcheck"
    /\ local' = [local EXCEPT ![p] = FundChecked(local[p])]
    /\ pc' = [pc EXCEPT ![p] = "finalize"]
    /\ UNCHANGED <<accounts, transactions, writer, tx, pre, served, portal>>

\* a Flagged request is debited too
DebitDue_NotOnlyApproved(l) == l.db_debit_required

\* db_debit_required and transaction_status == "Approved"
DebitDue(l) == l.db_debit_required /\ l.transaction_status = "Approved"

\* 5. Execute Debit: the UPDATE, written in the connection's transaction
ExecuteDebit(p) ==
    /\ pc[p] = "finalize"
    /\ LET l == local[p] IN
        IF l.transaction_status \in {"Approved", "Flagged"}
        THEN /\ pc' = [pc EXCEPT ![p] = "journal"]
             /\ IF DebitDue(l)
                THEN /\ writer \in {None, <<p>>}
                     /\ writer' = <<p>>
                     /\ tx' = [tx EXCEPT ![p].balance = <<l.current_balance - l.amount>>]
                ELSE UNCHANGED <<writer, tx>>
        ELSE /\ pc' = [pc EXCEPT ![p] = "deny"]
             /\ UNCHANGED <<writer, tx>>
    /\ UNCHANGED <<accounts, transactions, local, pre, served, portal>>

\* the row logged for the request
JournalRecord(l) ==
    [account_number |-> l.account_number, amount |-> l.amount,
     payment_method |-> l.data["payment_method"].s,
     status |-> l.transaction_status, risk_score |-> l.risk_score[1],
     is_fraud |-> is_fraud_label(l.risk_score[1])]

\* Log the transaction: the INSERT INTO transactions, in the same transaction
Journal(p) ==
    /\ pc[p] = "journal"
    /\ writer \in {None, <<p>>}
    /\ writer' = <<p>>
    /\ tx' = [tx EXCEPT ![p].journal = Append(@, JournalRecord(local[p]))]
    /\ pc' = [pc EXCEPT ![p] = "commit"]
    /\ UNCHANGED <<accounts, transactions, local, pre, served, portal>>

\* the UPDATE is lost
Committed_NoUpdate(acc, account_number, t) == acc

\* the accounts table with the connection's UPDATE applied
Committed(acc, account_number, t) ==
    IF t.balance # None /\ account_number \in DOMAIN acc
    THEN [acc EXCEPT ![account_number] = t.balance[1]]
    ELSE acc

\* the UPDATE outlives the connection that made it
RolledBack_Autocommit(acc, account_number, t) ==
    IF t.balance # None /\ account_number \in DOMAIN acc
    THEN [acc EXCEPT ![account_number] = t.balance[1]]
    ELSE acc

\* the accounts table after a connection is dropped with its transaction open:
\* nothing the connection wrote is kept
RolledBack(acc, account_number, t) == acc

\* a connection that was never closed and still holds the write lock
Lost == <<0>>

\* the INSERT INTO transactions raises (a payment_method that cannot be bound,
\* a locked database): the exception leaves process_payment, the server
\* answers 500, commit and close are not reached.  The transaction is rolled
\* back when the connection is collected; until then it keeps its lock.
Crash(p) ==
    /\ pc[p] = "journal"
    /\ writer \in {None, <<p>>}
    /\ accounts' = RolledBack(accounts, local[p].account_number, tx[p])
    /\ tx' = [tx EXCEPT ![p] = NoTx]
    /\ writer' \in {None, Lost}
    /\ Finish(p, Response(500, "error", None, <<"Internal Server Error">>, FALSE))
    /\ UNCHANGED <<transactions, pre, served, portal>>

\* conn.commit(), conn.close() and the 200 answer
Commit(p) ==
    /\ pc[p] = "commit"
    /\ accounts' = Committed(accounts, local[p].account_number, tx[p])
    /\ transactions' = transactions \o tx[p].journal
    /\ writer' = None
    /\ tx' = [tx EXCEPT ![p] = NoTx]
    /\ Finish(p, Response(200, local[p].transaction_status, local[p].risk_score,
                          <<"Transaction">>, TRUE))
    /\ UNCHANGED <<pre, served, portal>>

\* the denial answered with 200
Deny_Ok(p) ==
    /\ pc[p] = "deny"
    /\ writer' = IF writer = <<p>> THEN None ELSE writer
    /\ tx' = [tx EXCEPT ![p] = NoTx]
    /\ Finish(p, Response(200, "denied", local[p].risk_score,
                          local[p].rejection_reason, FALSE))
    /\ UNCHANGED <<accounts, transactions, pre, served, portal>>

\* Handle Denial: conn.close() without commit (an open transaction is rolled
\* back) and the 403 answer
Deny(p) ==
    /\ pc[p] = "deny"
    /\ writer' = IF writer = <<p>> THEN None ELSE writer
    /\ tx' = [tx EXCEPT ![p] = NoTx]
    /\ Finish(p, Response(403, "denied", local[p].risk_score,
                          local[p].rejection_reason, FALSE))
    /\ UNCHANGED <<accounts, transactions, pre, served, portal>>

\* the answer is sent and the worker is free for the next request
Respond(p) ==
    /\ pc[p] = "done"
    /\ pc' = [pc EXCEPT ![p] = "idle"]
    /\ local' = [local EXCEPT ![p] = InitLocal]
    /\ UNCHANGED <<accounts, transactions, writer, tx, pre, served, portal>>

---------------------------------------------------------------------------
(* banker_portal *)

\* the orders in which the rows of a table numbered by S can be returned
Orders(S) ==
    {f \in [1..Cardinality(S) -> S] : \A i, j \in DOMAIN f : i # j => f[i] # f[j]}

\* ORDER BY risk_score DESC: rows of equal score come in any order
OrderByRiskDesc(rows, S) ==
    {[i \in DOMAIN f |-> rows[f[i]]] : f \in
        {g \in Orders(S) : \A i \in DOMAIN g : \A j \in DOMAIN g :
                                i < j => rows[g[i]].risk_score >= rows[g[j]].risk_score}}

Limit(listing, n) == SubSeq(listing, 1, IF Len(listing) < n THEN Len(listing) ELSE n)

\* SELECT * FROM transactions WHERE status = 'Flagged' ORDER BY risk_score DESC
flagged_txns(rows) ==
    OrderByRiskDesc(rows, {i \in DOMAIN rows : rows[i].status = "Flagged"})

\* SELECT * FROM transactions ORDER BY risk_score DESC LIMIT 10
high_risk_txns(rows) ==
    {Limit(listing, PORTAL_LIMIT) : listing \in OrderByRiskDesc(rows, DOMAIN rows)}

\* no request is being handled
Quiet == \A p \in Procs : pc[p] \in {"idle", "done"}

\* the three SELECTs of banker_portal, on the committed tables, and conn.close()
BankerPortal ==
    /\ portal = None
    /\ \E f \in flagged_txns(transactions) : \E h \in high_risk_txns(transactions) :
            portal' = <<[flagged_txns |-> f, high_risk_txns |-> h, accounts |-> accounts]>>
    /\ UNCHANGED <<accounts, transactions, writer, pc, local, tx, pre, served>>

\* render_template: the page is returned
RenderPortal ==
    /\ portal # None
    /\ portal' = None
    /\ UNCHANGED <<accounts, transactions, writer, pc, local, tx, pre, served>>

---------------------------------------------------------------------------
(* Specifications *)

\* no other worker is handling a request
Alone(p) == \A q \in Procs \ {p} : pc[q] = "idle"

\* requests handled one at a time
Next ==
    \/ \E p \in Procs :
        \/ (Alone(p) /\ portal = None /\ Validate(p, Requests))
        \/ Score(p)
        \/ SelectAccount(p)
        \/ OpenAccount(p)
        \/ FundCheck(p)
        \/ ExecuteDebit(p)
        \/ Journal(p)
        \/ Commit(p)
        \/ Deny(p)
        \/ Respond(p)
    \/ (Quiet /\ BankerPortal)
    \/ RenderPortal

Spec == Init /\ [][Next]_vars

\* one request per worker, handled concurrently, the steps interleaved
NextConc ==
    \E p \in Procs :
        \/ Validate(p, ConcurrentRequests)
        \/ Score(p)
        \/ SelectAccount(p)
        \/ OpenAccount(p)
        \/ FundCheck(p)
        \/ ExecuteDebit(p)
        \/ Journal(p)
        \/ Commit(p)
        \/ Deny(p)

SpecConc == Init /\ [][NextConc]_vars

\* requests handled one at a time, the journal INSERT may fail
NextFail ==
    \E p \in Procs :
        \/ (Alone(p) /\ Validate(p, Requests))
        \/ Score(p)
        \/ SelectAccount(p)
        \/ OpenAccount(p)
        \/ FundCheck(p)
        \/ ExecuteDebit(p)
        \/ Journal(p)
        \/ Crash(p)
        \/ Commit(p)
        \/ Deny(p)
        \/ Respond(p)

SpecFail == Init /\ [][NextFail]_vars

---------------------------------------------------------------------------
(* What the claims speak of *)

\* worker p has finished a request and still holds its answer
Done(p) == pc[p] = "done"

Answer(p) == local[p].response[1]

\* the request got past validation and scoring
Scored(p) == local[p].risk_score # None

RiskOf(p) == local[p].risk_score[1]

\* the request's account had a row when the request arrived
HadRow(p) == local[p].account_number \in DOMAIN pre[p].accounts

\* the request names an account that the handler opens on first reference
Opens(p) == ~HadRow(p) /\ local[p].account_number # SIMULATION_ACCOUNT

\* the balance the fund check is about: the stored one, or the opening balance
BalanceBefore(p) ==
    IF HadRow(p) THEN pre[p].accounts[local[p].account_number] ELSE DEFAULT_BALANCE

\* number of journal rows written since the request arrived
Journaled(p) == Len(transactions) - Len(pre[p].transactions)

\* the request has every field, and its account number has fewer than 4
\* characters or no numeric prefix, or its amount is not numeric
Malformed(data) ==
    /\ required_fields \subseteq DOMAIN data
    /\ \/ Len(data["account_number"].s) < 4
       \/ ~IsDigits(Prefix(data["account_number"].s, 4))
       \/ data["amount"].t = "null"
       \/ data["amount"].t = "str" /\ ~IsDigits(data["amount"].s)

\* a request as the interface describes it: every field, an account number of
\* at least 4 characters with a numeric prefix, a positive amount
Ordinary(p) ==
    /\ required_fields \subseteq DOMAIN local[p].data
    /\ ~Malformed(local[p].data)
    /\ local[p].amount > 0

RECURSIVE ApprovedSum(_, _)
ApprovedSum(a, journal) ==
    IF journal = <<>> THEN 0
    ELSE ApprovedSum(a, Tail(journal))
         + (IF Head(journal).account_number = a /\ Head(journal).status = "Approved"
            THEN Head(journal).amount ELSE 0)

---------------------------------------------------------------------------
(* C1 *)

\* C1: no double-spend under concurrency.  Once every concurrent request has
\* finished, a non-simulation account's balance is its starting balance minus
\* the sum of the amounts of the Approved transactions journaled for it.
\* Stated for the accounts that had a row from the start and for requests
\* that spend (amount > 0), so that neither the opening of an account on
\* first reference nor a negative amount plays a part in it.
C1_NoDoubleSpend ==
    (/\ \A p \in Procs : pc[p] \in {"idle", "done"}
     /\ \A i \in 1..Len(transactions) : transactions[i].amount > 0) =>
        \A a \in DOMAIN SampleAccounts \ {SIMULATION_ACCOUNT} :
            accounts[a] = SampleAccounts[a] - ApprovedSum(a, transactions)

---------------------------------------------------------------------------
(* C2 *)

\* C2 as stated: a request that finishes Approved, on any account, found a
\* balance of at least its amount and leaves the stored balance at exactly
\* that balance minus the amount.  Stated for ordinary requests.
C2_ApprovedDebitsAnyAccount ==
    \A p \in Procs :
        (Done(p) /\ Ordinary(p)
                 /\ Answer(p).code = 200 /\ Answer(p).status = "Approved") =>
            /\ local[p].account_number \in DOMAIN accounts
            /\ BalanceBefore(p) >= local[p].amount
            /\ accounts[local[p].account_number] = BalanceBefore(p) - local[p].amount

\* C2 amended: with requests handled one at a time, a request on an account
\* other than the simulation account that finishes Approved found a balance
\* (the stored one, or the opening 1000 of an account it opened) of at least
\* its amount, and leaves the stored balance at exactly that balance minus
\* the amount.
C2_ApprovedDebits ==
    \A p \in Procs :
        (Done(p) /\ Answer(p).code = 200 /\ Answer(p).status = "Approved"
                 /\ local[p].account_number # SIMULATION_ACCOUNT) =>
            /\ local[p].account_number \in DOMAIN accounts
            /\ BalanceBefore(p) >= local[p].amount
            /\ accounts[local[p].account_number] = BalanceBefore(p) - local[p].amount

\* an Approved request has debited a known account
C2_Witness ==
    \E p \in Procs :
        /\ Done(p) /\ Answer(p).code = 200 /\ Answer(p).status = "Approved"
        /\ local[p].account_number = KnownAccount
        /\ local[p].amount = 50
        /\ accounts[KnownAccount] = pre[p].accounts[KnownAccount] - 50

---------------------------------------------------------------------------
(* C3 *)

\* C3: a request that passes validation and scoring writes exactly one
\* journal row, whether it ends Approved, Flagged or Denied; a request
\* rejected at validation or by a scoring failure writes none.  Stated for
\* requests that have every field and are not malformed.
C3_OneRecordPerScoredRequest ==
    \A p \in Procs :
        (Done(p) /\ Ordinary(p)) => Journaled(p) = (IF Scored(p) THEN 1 ELSE 0)

---------------------------------------------------------------------------
(* C4 *)

\* C4 as stated: a request that finishes Denied leaves the accounts table as
\* it was when the request arrived.  Stated for ordinary requests.
C4_DeniedChangesNothing ==
    \A p \in Procs :
        (Done(p) /\ Ordinary(p) /\ Answer(p).code = 403) => accounts = pre[p].accounts

\* C4 amended: with requests handled one at a time, a request that finishes
\* Denied leaves the balance of every account that had a row unchanged; the
\* one change it can make is to open its own account, when that had no row
\* and is not the simulation account, with the default balance 1000.
C4_DeniedKeepsBalances ==
    \A p \in Procs :
        (Done(p) /\ Answer(p).code = 403) =>
            accounts = IF Opens(p)
                       THEN pre[p].accounts @@ (local[p].account_number :> DEFAULT_BALANCE)
                       ELSE pre[p].accounts

\* a request on a known account was denied for insufficient funds
C4_Witness ==
    \E p \in Procs :
        /\ Done(p) /\ Answer(p).code = 403
        /\ HadRow(p) /\ ~Opens(p)
        /\ Answer(p).message[1].text = "Insufficient Funds."

---------------------------------------------------------------------------
(* C5 *)

\* C5: with requests handled one at a time, a request with 0.4 <= risk_score
\* < 0.8 and a balance of at least its amount ends Flagged and the account's
\* balance after it is the balance before (the opening balance for an account
\* the request opened).
C5_FlaggedNoDebit ==
    \A p \in Procs :
        (Done(p) /\ Scored(p) /\ RiskOf(p) >= 40 /\ RiskOf(p) < 80
                 /\ (HadRow(p) \/ Opens(p))
                 /\ BalanceBefore(p) >= local[p].amount) =>
            /\ Answer(p).code = 200
            /\ Answer(p).status = "Flagged"
            /\ accounts[local[p].account_number] = BalanceBefore(p)

\* a request scored exactly 0.4 with sufficient funds has finished
C5_Witness ==
    \E p \in Procs :
        /\ Done(p) /\ Scored(p) /\ RiskOf(p) = 40
        /\ local[p].account_number = KnownAccount
        /\ local[p].amount = 50 /\ pre[p].accounts[KnownAccount] = 100
        /\ Answer(p).status = "Flagged"

---------------------------------------------------------------------------
(* C6 *)

\* C6: between scoring and the fund check the decision is fixed by the score
\* alone: Denied from 0.8, Flagged from 0.4 to below 0.8, Approved below 0.4,
\* the boundary values 0.4 and 0.8 falling in the higher tier.
C6_RiskTiers ==
    \A p \in Procs :
        (pc[p] \in {"select", "open", "fundcheck"}) =>
            /\ Scored(p)
            /\ local[p].transaction_status =
                    (IF RiskOf(p) >= 80 THEN "Denied"
                     ELSE IF RiskOf(p) >= 40 THEN "Flagged"
                     ELSE "Approved")
            /\ (local[p].rejection_reason # None) = (RiskOf(p) >= 80)

\* a request scored exactly 0.4 has been decided and is in the higher tier
C6_Witness ==
    \E p \in Procs :
        /\ pc[p] = "select"
        /\ RiskOf(p) = 40
        /\ local[p].transaction_status = "Flagged"

---------------------------------------------------------------------------
(* C7 *)

\* C7 as stated: a request whose risk decision is not Denied and whose
\* account's balance is less than the amount ends Denied with the reason
\* "Insufficient Funds", on any account.  Stated for ordinary requests on an
\* account that has a row.
C7_InsufficientFundsAnyAccount ==
    \A p \in Procs :
        (Done(p) /\ Ordinary(p) /\ Scored(p) /\ RiskOf(p) < 80
                 /\ HadRow(p)
                 /\ BalanceBefore(p) < local[p].amount) =>
            /\ Answer(p).code = 403
            /\ Answer(p).message # None
            /\ Answer(p).message[1].text = "Insufficient Funds."

\* C7 amended: with requests handled one at a time, on every account other
\* than the simulation account, a request whose risk decision is Approved or
\* Flagged and whose account's balance is less than the amount ends Denied
\* with the reason "Insufficient Funds"; a Flagged one too.
C7_InsufficientFunds ==
    \A p \in Procs :
        (Done(p) /\ Scored(p) /\ RiskOf(p) < 80
                 /\ local[p].account_number # SIMULATION_ACCOUNT
                 /\ BalanceBefore(p) < local[p].amount) =>
            /\ Answer(p).code = 403
            /\ Answer(p).status = "denied"
            /\ Answer(p).message # None
            /\ Answer(p).message[1].text = "Insufficient Funds."

\* a request in the Flagged tier with insufficient funds was denied
C7_Witness ==
    \E p \in Procs :
        /\ Done(p) /\ Scored(p) /\ RiskOf(p) = 40
        /\ local[p].account_number = KnownAccount
        /\ local[p].amount > pre[p].accounts[KnownAccount]
        /\ Answer(p).code = 403

---------------------------------------------------------------------------
(* C8 *)

\* C8: a request with risk_score >= 0.8 ends Denied with the reason "High
\* Fraud Risk Detected", whatever the balance and the amount; the fund check
\* replaces neither the denial nor its reason.
C8_RiskDenialStands ==
    \A p \in Procs :
        (Done(p) /\ Scored(p) /\ RiskOf(p) >= 80) =>
            /\ Answer(p).code = 403
            /\ Answer(p).status = "denied"
            /\ Answer(p).message =
                    <<[text |-> "High Fraud Risk Detected (Score: {:.2f})",
                       score |-> <<RiskOf(p)>>]>>

\* a high-risk request on an account with too small a balance was denied
C8_Witness ==
    \E p \in Procs :
        /\ Done(p) /\ Scored(p) /\ RiskOf(p) >= 80
        /\ local[p].account_number = KnownAccount
        /\ local[p].amount > pre[p].accounts[KnownAccount]
        /\ Answer(p).code = 403

---------------------------------------------------------------------------
(* C9 *)

\* C9: malformed input ends with the 400 outcome, writes no journal row and
\* changes no account.
C9_MalformedRejected ==
    \A p \in Procs :
        (Done(p) /\ Malformed(local[p].data)) =>
            /\ Answer(p).code = 400
            /\ transactions = pre[p].transactions
            /\ accounts = pre[p].accounts

---------------------------------------------------------------------------
(* C10 *)

\* C10: a request missing a required field ends with the 400 outcome before
\* scoring (it is never handed to the scorer or to any later step) and leaves
\* the journal and the accounts as they were.
C10_MissingField ==
    \A p \in Procs :
        (pc[p] # "idle" /\ ~(required_fields \subseteq DOMAIN local[p].data)) =>
            /\ Done(p)
            /\ Answer(p).code = 400
            /\ ~Scored(p)
            /\ transactions = pre[p].transactions
            /\ accounts = pre[p].accounts

\* a request without payment_method was answered 400
C10_Witness ==
    \E p \in Procs :
        /\ Done(p)
        /\ DOMAIN local[p].data = required_fields \ {"payment_method"}
        /\ Answer(p).code = 400

---------------------------------------------------------------------------
(* C11 *)

\* the request got past validation: every field, and float() took the amount
Validated(data) == ~MissingField(data) /\ float(data["amount"]).ok

\* C11: when the scorer fails (a validated request ends without a score) the
\* request is answered 500, reaches no step after scoring, and leaves no
\* trace in the ledger: no journal row, no account opened, no balance changed.
C11_ScorerFailure ==
    \A p \in Procs :
        (pc[p] \notin {"idle", "score"} /\ Validated(local[p].data) /\ ~Scored(p)) =>
            /\ Done(p)
            /\ Answer(p).code = 500
            /\ Answer(p).status = "error"
            /\ transactions = pre[p].transactions
            /\ accounts = pre[p].accounts

\* the scorer failed on a request that names an account without a row
C11_Witness ==
    \E p \in Procs :
        /\ Done(p) /\ ~Scored(p)
        /\ local[p].account_number = NewAccount
        /\ local[p].amount = 50
        /\ Answer(p).code = 500
        /\ NewAccount \notin DOMAIN accounts

---------------------------------------------------------------------------
(* C12 *)

\* C12: the answer matches the final decision.  A request ends with 200, a
\* transaction_id and its status exactly when its final status is Approved or
\* Flagged, and with 403, status "denied", the risk_score and the rejection
\* reason as message exactly when its final status is Denied; a request that
\* got no decision ends with neither.
C12_OutcomeMatchesDecision ==
    \A p \in Procs :
        Done(p) =>
            LET final == local[p].transaction_status
                a == Answer(p)
            IN  /\ (a.code = 200) = (Scored(p) /\ final \in {"Approved", "Flagged"})
                /\ (a.code = 403) = (Scored(p) /\ final = "Denied")
                /\ a.code = 200 => /\ a.transaction_id
                                   /\ a.status = final
                                   /\ a.risk_score = local[p].risk_score
                /\ a.code = 403 => /\ ~a.transaction_id
                                   /\ a.status = "denied"
                                   /\ a.risk_score = local[p].risk_score
                                   /\ a.message # None
                                   /\ a.message = local[p].rejection_reason

\* a request of the Approved tier was denied by the fund check and answered 403
C12_Witness ==
    \E p \in Procs :
        /\ Done(p) /\ Scored(p) /\ RiskOf(p) = 20
        /\ local[p].transaction_status = "Denied"
        /\ Answer(p).code = 403
        /\ Answer(p).message[1].text = "Insufficient Funds."

---------------------------------------------------------------------------
(* C13 *)

\* the journal row of the request p has just finished
OwnRow(p) == transactions[Len(transactions)]

\* C13: every journal record written, committed or still in its writer's
\* transaction, has a fraud label that is 1 exactly when its risk_score is
\* above 0.9, and the record of a finished request carries that request's
\* final status and the score the scorer returned for it.
C13_JournalRecord ==
    /\ \A i \in DOMAIN transactions :
            (transactions[i].is_fraud = 1) = (transactions[i].risk_score > FRAUD_LABEL_THRESHOLD)
    /\ \A p \in Procs :
        /\ \A i \in DOMAIN tx[p].journal :
            LET r == tx[p].journal[i]
            IN  /\ (r.is_fraud = 1) = (r.risk_score > FRAUD_LABEL_THRESHOLD)
                /\ r.is_fraud \in {0, 1}
                /\ r.status = local[p].transaction_status
                /\ r.risk_score = RiskOf(p)
        /\ (Done(p) /\ Journaled(p) > 0) =>
                /\ Journaled(p) = 1
                /\ OwnRow(p).status = local[p].transaction_status
                /\ OwnRow(p).status = Answer(p).status
                /\ OwnRow(p).risk_score = RiskOf(p)
                /\ OwnRow(p).is_fraud \in {0, 1}

\* a Flagged request with score 0.40 is journaled as Flagged, 0.40, label 0
C13_Witness ==
    \E p \in Procs :
        /\ Done(p) /\ Journaled(p) = 1 /\ RiskOf(p) = 40
        /\ OwnRow(p).status = "Flagged"
        /\ OwnRow(p).risk_score = 40
        /\ OwnRow(p).is_fraud = 0

---------------------------------------------------------------------------
(* C14 *)

\* the row is the record of the request worker p has finished
RecordOf(row, p) ==
    /\ row.account_number = local[p].account_number
    /\ row.amount = local[p].amount
    /\ row.risk_score = RiskOf(p)
    /\ row.status = local[p].transaction_status

Descending(listing) ==
    \A i \in DOMAIN listing : \A j \in DOMAIN listing :
        i < j => listing[i].risk_score >= listing[j].risk_score

\* C14: in the page banker_portal has fetched, the flagged listing holds
\* Flagged rows only, in descending order of risk_score, and the request just
\* processed when it ended Flagged; the high-risk listing is in descending
\* order and holds the request just processed unless it is full of rows of at
\* least that risk; the balances shown are the stored ones.
C14_PortalListings ==
    portal # None =>
        LET view == portal[1]
        IN  /\ \A i \in DOMAIN view.flagged_txns : view.flagged_txns[i].status = "Flagged"
            /\ Descending(view.flagged_txns)
            /\ Descending(view.high_risk_txns)
            /\ Len(view.high_risk_txns) <= PORTAL_LIMIT
            /\ view.accounts = accounts
            /\ \A p \in Procs :
                (Done(p) /\ Scored(p) /\ Ordinary(p)) =>
                    /\ local[p].transaction_status = "Flagged" =>
                            \E i \in DOMAIN view.flagged_txns : RecordOf(view.flagged_txns[i], p)
                    /\ \/ \E i \in DOMAIN view.high_risk_txns : RecordOf(view.high_risk_txns[i], p)
                       \/ /\ Len(view.high_risk_txns) = PORTAL_LIMIT
                          /\ \A i \in DOMAIN view.high_risk_txns :
                                view.high_risk_txns[i].risk_score >= RiskOf(p)

---------------------------------------------------------------------------
(* C15 *)

\* the accounts table with the amount of the journal row taken from its account
Debited(acc, row) ==
    [a \in DOMAIN acc |-> IF a = row.account_number THEN acc[a] - row.amount ELSE acc[a]]

\* the journal row a step has added
Added == transactions'[Len(transactions')]

\* a step only appends to the journal, one row at most
AppendsAtMostOne ==
    /\ Len(transactions') \in {Len(transactions), Len(transactions) + 1}
    /\ SubSeq(transactions', 1, Len(transactions)) = transactions

\* C15 as stated: for every Approved request, whatever its account, the debit
\* and the journal record appear in the committed tables in the same step or
\* not at all.
C15_DebitWithRecordAnyAccount ==
    [][/\ AppendsAtMostOne
       /\ Len(transactions') = Len(transactions) =>
            \A a \in DOMAIN accounts : a \in DOMAIN accounts' /\ accounts'[a] = accounts[a]
       /\ Len(transactions') = Len(transactions) + 1 =>
            IF Added.status = "Approved"
            THEN /\ Added.account_number \in DOMAIN accounts
                 /\ accounts' = Debited(accounts, Added)
            ELSE accounts' = accounts]_vars

\* C15: requests handled one at a time, the journal INSERT free to fail.  A
\* step that adds no journal row leaves every stored balance as it was; a
\* step that adds the row of an Approved request on an account other than the
\* simulation account debits that account by the row's amount in the same
\* step; a step that adds any other row changes no balance.
C15_DebitWithRecord ==
    [][/\ AppendsAtMostOne
       /\ Len(transactions') = Len(transactions) =>
            \A a \in DOMAIN accounts : a \in DOMAIN accounts' /\ accounts'[a] = accounts[a]
       /\ Len(transactions') = Len(transactions) + 1 =>
            IF Added.status = "Approved" /\ Added.account_number # SIMULATION_ACCOUNT
            THEN /\ Added.account_number \in DOMAIN accounts
                 /\ accounts' = Debited(accounts, Added)
            ELSE accounts' = accounts]_vars

\* an Approved request of 50 failed after its UPDATE: 500, no debit, no record
C15_Witness ==
    \E p \in Procs :
        /\ Done(p) /\ Scored(p) /\ Answer(p).code = 500
        /\ local[p].account_number = KnownAccount /\ local[p].amount = 50
        /\ DebitDue(local[p])
        /\ accounts = pre[p].accounts
        /\ transactions = pre[p].transactions

---------------------------------------------------------------------------
(* C16 *)

\* C16: a request that made the first reference to an account other than the
\* simulation account (its SELECT found no row) is fund-checked against the
\* default balance of 1000.00 the account was opened with, under any
\* interleaving.
C16_FirstReferenceBalance ==
    \A p \in Procs :
        (/\ pc[p] = "fundcheck"
         /\ local[p].account_number # SIMULATION_ACCOUNT
         /\ local[p].account = None) =>
            local[p].current_balance = DEFAULT_BALANCE

---------------------------------------------------------------------------
(* C17 *)

\* C17: requests handled one at a time; when a request has been handled, no
\* account's stored balance is above its balance when the request arrived,
\* whatever numeric amount the request carries.
C17_NeverCredits ==
    \A p \in Procs :
        (Done(p) /\ ~Malformed(local[p].data)) =>
            \A a \in DOMAIN pre[p].accounts :
                a \in DOMAIN accounts /\ accounts[a] <= pre[p].accounts[a]

---------------------------------------------------------------------------
(* C18 *)

\* C18: under any interleaving of the requests' steps, every stored balance
\* is non-negative in every reachable state, and so is every balance a
\* connection has written and not yet committed.
C18_BalancesNonNegative ==
    /\ \A a \in DOMAIN accounts : accounts[a] >= 0
    /\ \A p \in Procs : tx[p].balance # None => tx[p].balance[1] >= 0

\* two interleaved requests of 50 on the balance of 100 were both approved
\* and debited from the balance they had read: the stored balance is 50
C18_Witness ==
    /\ \A p \in Procs :
        /\ Done(p) /\ Answer(p).code = 200
        /\ local[p].account_number = KnownAccount
        /\ local[p].amount = 50
        /\ local[p].transaction_status = "Approved"
    /\ Len(transactions) = 2
    /\ accounts[KnownAccount] = 50

---------------------------------------------------------------------------
(* C19 *)

\* worker p is handling, or has handled, a request on the simulation account
OnSimulation(p) ==
    pc[p] # "idle" /\ local[p].account_number = SIMULATION_ACCOUNT

\* C19: a request on the simulation account leaves the accounts table as it
\* found it at every step, with no UPDATE written; once handled, its final
\* status is the tier of its risk score (Approved below 0.4, Flagged from 0.4
\* to below 0.8, Denied from 0.8), whatever the amount and whether or not
\* the account has a row; it is never denied for insufficient funds; and an
\* Approved or Flagged one is answered 200 and has its one journal record.
C19_SimulationAccount ==
    \A p \in Procs :
        OnSimulation(p) =>
            /\ accounts = pre[p].accounts
            /\ tx[p].balance = None
            /\ ~local[p].db_debit_required
            /\ (Done(p) /\ Scored(p)) =>
                LET final == local[p].transaction_status
                IN  /\ (final = "Approved") = (RiskOf(p) < RISK_THRESHOLD_FLAG)
                    /\ (final = "Flagged") = (/\ RiskOf(p) >= RISK_THRESHOLD_FLAG
                                              /\ RiskOf(p) < RISK_THRESHOLD_DENY)
                    /\ (final = "Denied") = (RiskOf(p) >= RISK_THRESHOLD_DENY)
                    /\ final = "Denied" =>
                            /\ Answer(p).code = 403
                            /\ Answer(p).message[1].text # "Insufficient Funds."
                            /\ Journaled(p) = 0
                    /\ final # "Denied" =>
                            /\ Answer(p).code = 200
                            /\ Journaled(p) = 1
                            /\ RecordOf(OwnRow(p), p)

\* a request of 150 on the simulation account, whose row holds 20, was
\* approved and journaled, and the row still holds 20
C19_Witness ==
    \E p \in Procs :
        /\ Done(p) /\ OnSimulation(p) /\ Scored(p)
        /\ local[p].amount = 150
        /\ SIMULATION_ACCOUNT \in DOMAIN accounts /\ accounts[SIMULATION_ACCOUNT] = 20
        /\ local[p].transaction_status = "Approved"
        /\ Answer(p).code = 200
        /\ Journaled(p) = 1

=============================================================================
